---- MODULE Spec2Model ----
(***************************************************************************)
(* kagimcp: the search fan-out (kagi_search_fetch), the result formatter   *)
(* (format_search_results) and the summarizer adapter (kagi_summarizer) of *)
(* src/src/kagimcp/server.py, as state machines.                           *)
(*                                                                         *)
(* Python dicts are functions whose DOMAIN is the set of keys present.     *)
(* Every response carries a "meta" key, so that no dict is empty.          *)
(* A text block is kept as the list of values substituted into its         *)
(* template; the templates themselves are fixed text.                      *)
(***************************************************************************)
EXTENDS Integers, Sequences, FiniteSets, TLC

VARIABLES
    pc,               \* where the tool invocation is
    queries,          \* kagi_search_fetch / format_search_results: queries
    results,          \* the response list handed to format_search_results
    outcome,          \* what the invocation gave back to the host
    executor,         \* the ThreadPoolExecutor: "none", "open", "shutdown"
    fs,               \* the futures executor.map submitted, one per query
    exc,              \* the exception raised inside the try block, or None
    now,              \* monotonic clock, in time units since the call
    url,              \* kagi_summarizer: url
    engine,           \* KAGI_SUMMARIZER_ENGINE as found in the environment
    summary_type,     \* kagi_summarizer: summary_type
    target_language,  \* kagi_summarizer: target_language
    requests          \* the summarize requests sent to the gateway

vars == <<pc, queries, results, outcome, executor, fs, exc, now,
          url, engine, summary_type, target_language, requests>>

searchVars == <<executor, fs, exc, now>>
summVars == <<url, engine, summary_type, target_language, requests>>

----------------------------------------------------------------------------
(* Bounds *)

MaxQueries == 3
MaxItems == 2
MaxWorkers == 2
MaxTime == 11

----------------------------------------------------------------------------
(* Python values *)

None == "<None>"

\* dict.get(key, default)
Get(d, key, default) == IF key \in DOMAIN d THEN d[key] ELSE default

\* bool(value) of a str-or-None value
Truthy(value) == value \notin {None, ""}

Ok(value) == [raised |-> FALSE, value |-> value]
Raise(type, arg) == [raised |-> TRUE, type |-> type, arg |-> arg]

Min(a, b) == IF a < b THEN a ELSE b

----------------------------------------------------------------------------
(* format_search_results *)

not_available_str == "Not Available"

\* result_template.format(...): the values of one rendered result
result_template(result_number, result) ==
    [result_number |-> result_number,
     title |-> Get(result, "title", not_available_str),
     url |-> Get(result, "url", not_available_str),
     published |-> Get(result, "published", not_available_str),
     snippet |-> Get(result, "snippet", not_available_str)]

\* query_response_template.format(...): the header naming the query, then
\* the body
query_response_template(query, formatted_search_results) ==
    [query |-> query, formatted_search_results |-> formatted_search_results]

\* f"ERROR: {error}"
ErrorLine(error) == <<[ERROR |-> error]>>

\* variant: an error counts only when the response has no data
HasErrorNoData(response) ==
    Truthy(Get(response, "error", None)) /\ "data" \notin DOMAIN response
\* if error := response.get("error")
HasError(response) == Truthy(Get(response, "error", None))

\* [result for result in response["data"] if result["t"] == 0], given that
\* every item has "t"
OrganicResults(data) == SelectSeq(data, LAMBDA result : result["t"] = 0)

\* enumerate(results, start=start_index) through result_template
FormattedResultsList(rs, start_index) ==
    [j \in 1..Len(rs) |-> result_template(start_index + j - 1, rs[j])]

\* variant: start_index is not advanced
NextStartIndexStale(start_index, rs) == start_index
\* start_index += len(results)
NextStartIndex(start_index, rs) == start_index + Len(rs)

\* the loop over zip(queries, responses), from pair k on
RECURSIVE FormatLoop(_, _, _, _, _)
FormatLoop(qs, responses, k, start_index, per_query_response_strs) ==
    IF k > Min(Len(qs), Len(responses))
    THEN Ok(per_query_response_strs)
    ELSE LET query == qs[k]
             response == responses[k]
         IN  IF HasError(response)
             THEN FormatLoop(qs, responses, k + 1, start_index,
                      Append(per_query_response_strs,
                             query_response_template(query,
                                 ErrorLine(response["error"]))))
             ELSE IF "data" \notin DOMAIN response
             THEN Raise("KeyError", "data")
             ELSE IF \E j \in 1..Len(response["data"]) :
                         "t" \notin DOMAIN response["data"][j]
             THEN Raise("KeyError", "t")
             ELSE LET rs == OrganicResults(response["data"])
                  IN  FormatLoop(qs, responses, k + 1,
                          NextStartIndex(start_index, rs),
                          Append(per_query_response_strs,
                                 query_response_template(query,
                                     FormattedResultsList(rs, start_index))))

\* the blocks of the returned text, in order ("\n\n".join keeps the order)
format_search_results(qs, responses) == FormatLoop(qs, responses, 1, 1, <<>>)

----------------------------------------------------------------------------
(* Inputs of the formatter *)

QueryNames == <<"q1", "q2", "q3", "q4">>

\* the query lists of length n: the first n query names
QueryList(n) == [i \in 1..n |-> QueryNames[i]]

Fields == {"title", "url", "published", "snippet"}

Hit(q, n) ==
    [t |-> 0, title |-> "title " \o q \o n, url |-> "url " \o q \o n,
     published |-> "published " \o q \o n, snippet |-> "snippet " \o q \o n]

Related(q) == [t |-> 1, list |-> "related " \o q]

\* a result item `item` restricted to the keys `keys`
Restrict(item, keys) == [key \in (DOMAIN item) \cap keys |-> item[key]]

ItemMenu(q) ==
    { Hit(q, "#1"),
      Restrict(Hit(q, "#1"), {"t"}),
      Restrict(Hit(q, "#1"), {"t", "title", "snippet"}),
      Related(q),
      Restrict(Hit(q, "#1"), Fields) }

\* the data lists of up to n items: none, one item of the menu, and those
\* followed by further complete hits
RECURSIVE DataLists(_, _)
DataLists(q, n) ==
    IF n = 0 THEN { <<>> }
    ELSE IF n = 1 THEN { <<>> } \cup { <<a>> : a \in ItemMenu(q) }
    ELSE DataLists(q, n - 1)
         \cup { Append(d, Hit(q, "#2")) :
                   d \in { x \in DataLists(q, n - 1) : Len(x) = n - 1 } }

Meta == [meta |-> "meta"]

\* the message of the error the gateway reports for query q
ErrorOf(q) == "error " \o q

SearchResponses(q) ==
    { [meta |-> "meta", data |-> d] : d \in DataLists(q, MaxItems) }
    \cup { [meta |-> "meta", error |-> ErrorOf(q)],
           [meta |-> "meta", error |-> ErrorOf(q), data |-> <<Hit(q, "#1")>>],
           [meta |-> "meta", error |-> "", data |-> <<Hit(q, "#1")>>],
           [meta |-> "meta", error |-> ""],
           Meta }

\* the aligned response lists for the query list qs
RECURSIVE ResponseLists(_, _)
ResponseLists(qs, n) ==
    IF n = 0 THEN { <<>> }
    ELSE { Append(rl, r) : rl \in ResponseLists(qs, n - 1),
                           r \in SearchResponses(qs[n]) }

----------------------------------------------------------------------------
(* The formatter alone: SpecFormat *)

NoFuture == <<>>

InitFormat ==
    /\ pc = "format"
    /\ \E n \in 1..MaxQueries :
          /\ queries = QueryList(n)
          /\ results \in ResponseLists(queries, n)
    /\ outcome = None
    /\ executor = "none" /\ fs = NoFuture /\ exc = None /\ now = 0
    /\ url = None /\ engine = None /\ summary_type = None
    /\ target_language = None /\ requests = <<>>

Format ==
    /\ pc = "format"
    /\ outcome' = format_search_results(queries, results)
    /\ pc' = "done"
    /\ UNCHANGED <<queries, results>>
    /\ UNCHANGED searchVars
    /\ UNCHANGED summVars

NextFormat == Format

SpecFormat == InitFormat /\ [][NextFormat]_vars

----------------------------------------------------------------------------
(* kagi_search_fetch: the fan-out over a ThreadPoolExecutor *)

\* executor.map(kagi_client.search, queries, timeout=10)
timeout == 10

\* map: end_time = timeout + time.monotonic(), the clock being 0 at the call
end_time == timeout + 0

\* ThreadPoolExecutor(): the pool size the host gives
max_workers == MaxWorkers

\* what kagi_client.search(q) may return
GatewaySearch(q) ==
    { [meta |-> "meta", data |-> <<Hit(q, "#1")>>],
      [meta |-> "meta", error |-> ErrorOf(q)],
      Meta }

NoResult == [meta |-> "no result"]

\* a future as submit() makes it. Beside the state, result and exception of
\* the Future: calls, the number of times the gateway was called for it;
\* start, the time the call began; finished, when the call ended relative
\* to the deadline of the map ("before", "at" or "after" it); long, whether
\* the call itself took `timeout` time units or more.
NewFuture ==
    [state |-> "PENDING", result |-> NoResult, exception |-> None,
     calls |-> 0, start |-> -1, finished |-> "no", long |-> FALSE]

\* the time t relative to the deadline
Relative(t, deadline) ==
    IF t < deadline THEN "before" ELSE IF t = deadline THEN "at" ELSE "after"

Futures == DOMAIN fs
Running == { i \in Futures : fs[i].state = "RUNNING" }
Pending == { i \in Futures : fs[i].state = "PENDING" }

\* variant: the check of the queries is missing
NoQueriesNever(qs) == FALSE
\* if not queries
NoQueries(qs) == qs = <<>>

\* Future.cancel(): only a future that has not started is cancelled
Cancel(f) == IF f.state = "PENDING" THEN [f EXCEPT !.state = "CANCELLED"] ELSE f

\* result_iterator's finally, with _result_or_cancel's: the future waited
\* for and the ones after it are cancelled
CancelFrom(futures, i) ==
    [j \in DOMAIN futures |-> IF j >= i THEN Cancel(futures[j]) ELSE futures[j]]

\* variant: the results are taken as they complete (as_completed)
NextFutureAsCompleted(rs, futures) ==
    LET ready == { i \in DOMAIN futures :
                     /\ futures[i].state = "FINISHED"
                     /\ futures[i].exception = None
                     /\ \A k \in 1..Len(rs) : rs[k] # futures[i].result }
    IN  IF ready = {} THEN Len(rs) + 1 ELSE CHOOSE i \in ready : TRUE
\* result_iterator: fs.pop() of the reversed list, the next future in the
\* order of the queries
NextFuture(rs, futures) == Len(rs) + 1

\* variant: the wait ends one time unit early
ExpiredEarly(t, deadline) == t >= deadline - 1
\* Future.result(end_time - time.monotonic()) gives up
Expired(t, deadline) == t >= deadline

\* variant: only a timeout aborts the batch
CaughtOnlyTimeout(e) == e = "TimeoutError"
\* except Exception as e
Caught(e) == e # None

\* variant: shutdown(wait=False)
ShutdownNoWait(futures) == TRUE
\* ThreadPoolExecutor.__exit__: shutdown(wait=True) joins the workers
ShutdownWaits(futures) ==
    \A i \in DOMAIN futures : futures[i].state \notin {"PENDING", "RUNNING"}

AggregateError(e) ==
    Raise("ValueError",
          "Error calling Kagi Search API (Currently in beta, make sure you have been granted access. Can be granted by emailing support@kagi.com): " \o e)

InitSearch ==
    /\ pc = "call"
    /\ \E n \in 0..MaxQueries : queries = QueryList(n)
    /\ results = <<>>
    /\ outcome = None
    /\ executor = "none" /\ fs = NoFuture /\ exc = None /\ now = 0
    /\ url = None /\ engine = None /\ summary_type = None
    /\ target_language = None /\ requests = <<>>

\* the host calls the tool: the check of the queries, then the executor
\* is made and map submits one future per query
SearchCall ==
    /\ pc = "call"
    /\ IF NoQueries(queries)
       THEN /\ outcome' = Raise("ValueError", "Search called with no queries.")
            /\ pc' = "done"
            /\ UNCHANGED <<executor, fs>>
       ELSE /\ executor' = "open"
            /\ fs' = [i \in 1..Len(queries) |-> NewFuture]
            /\ pc' = "collect"
            /\ UNCHANGED outcome
    /\ UNCHANGED <<queries, results, exc, now>>
    /\ UNCHANGED summVars

\* a free worker takes the next work item of the queue and calls
\* kagi_client.search(queries[i])
WorkerStart(i) ==
    /\ pc \in {"collect", "shutdown"}
    /\ i \in Pending
    /\ \A j \in Pending : i <= j
    /\ Cardinality(Running) < max_workers
    /\ fs' = [fs EXCEPT ![i].state = "RUNNING", ![i].start = now,
                        ![i].calls = @ + 1]
    /\ UNCHANGED <<pc, queries, results, outcome, executor, exc, now>>
    /\ UNCHANGED summVars

\* kagi_client.search returns a response
WorkerReturn(i) ==
    /\ i \in Running
    /\ \E response \in GatewaySearch(queries[i]) :
          fs' = [fs EXCEPT ![i].state = "FINISHED", ![i].result = response,
                          ![i].finished = Relative(now, end_time),
                          ![i].long = (now - fs[i].start >= timeout)]
    /\ UNCHANGED <<pc, queries, results, outcome, executor, exc, now>>
    /\ UNCHANGED summVars

\* kagi_client.search raises
WorkerRaise(i) ==
    /\ i \in Running
    /\ fs' = [fs EXCEPT ![i].state = "FINISHED",
                        ![i].exception = "TransportFault",
                        ![i].finished = Relative(now, end_time),
                        ![i].long = (now - fs[i].start >= timeout)]
    /\ UNCHANGED <<pc, queries, results, outcome, executor, exc, now>>
    /\ UNCHANGED summVars

\* list(...) takes the next result from result_iterator
CollectResult ==
    /\ pc = "collect"
    /\ Len(results) < Len(queries)
    /\ LET i == NextFuture(results, fs)
       IN  /\ fs[i].state = "FINISHED"
           /\ fs[i].exception = None
           /\ results' = Append(results, fs[i].result)
    /\ UNCHANGED <<pc, queries, outcome, executor, fs, exc, now>>
    /\ UNCHANGED summVars

\* the next future raised: result() re-raises, the rest is cancelled
CollectRaise ==
    /\ pc = "collect"
    /\ Len(results) < Len(queries)
    /\ LET i == NextFuture(results, fs)
       IN  /\ fs[i].state = "FINISHED"
           /\ fs[i].exception # None
           /\ exc' = fs[i].exception
           /\ fs' = CancelFrom(fs, i)
    /\ pc' = "shutdown"
    /\ UNCHANGED <<queries, results, outcome, executor, now>>
    /\ UNCHANGED summVars

\* the next future is not done when the deadline of the map call passes
CollectTimeout ==
    /\ pc = "collect"
    /\ Len(results) < Len(queries)
    /\ LET i == NextFuture(results, fs)
       IN  /\ fs[i].state # "FINISHED"
           /\ Expired(now, end_time)
           /\ exc' = "TimeoutError"
           /\ fs' = CancelFrom(fs, i)
    /\ pc' = "shutdown"
    /\ UNCHANGED <<queries, results, outcome, executor, now>>
    /\ UNCHANGED summVars

\* the iterator is exhausted: list(...) is complete
CollectDone ==
    /\ pc = "collect"
    /\ Len(results) = Len(queries)
    /\ pc' = "shutdown"
    /\ UNCHANGED <<queries, results, outcome, executor, fs, exc, now>>
    /\ UNCHANGED summVars

\* leaving the with block, then the except clause or the formatting
SearchReturn ==
    /\ pc = "shutdown"
    /\ ShutdownWaits(fs)
    /\ executor' = "shutdown"
    /\ outcome' = IF Caught(exc) THEN AggregateError(exc)
                  ELSE format_search_results(queries, results)
    /\ pc' = "done"
    /\ UNCHANGED <<queries, results, fs, exc, now>>
    /\ UNCHANGED summVars

\* a time unit passes. Free workers take queued work at once, and result()
\* returns as soon as its future is done or its deadline has come.
Tick ==
    /\ pc \in {"collect", "shutdown"}
    /\ now < MaxTime
    /\ pc = "collect" =>
          /\ ~Expired(now, end_time)
          /\ Len(results) < Len(queries)
          /\ fs[NextFuture(results, fs)].state # "FINISHED"
    /\ ~(Pending # {} /\ Cardinality(Running) < max_workers)
    /\ Running # {}
    /\ now' = now + 1
    /\ UNCHANGED <<pc, queries, results, outcome, executor, fs, exc>>
    /\ UNCHANGED summVars

NextSearch ==
    \/ SearchCall
    \/ \E i \in Futures : WorkerStart(i)
    \/ \E i \in Futures : WorkerReturn(i)
    \/ \E i \in Futures : WorkerRaise(i)
    \/ CollectResult
    \/ CollectRaise
    \/ CollectTimeout
    \/ CollectDone
    \/ SearchReturn
    \/ Tick

SpecSearch == InitSearch /\ [][NextSearch]_vars

----------------------------------------------------------------------------
(* kagi_summarizer *)

valid_engines == {"cecil", "agnes", "daphne", "muriel"}

\* os.environ.get("KAGI_SUMMARIZER_ENGINE", "cecil")
EngineOf(env) == IF env = None THEN "cecil" ELSE env

\* variant: the engine is not checked
ValidEngineAny(e) == TRUE
\* if engine not in valid_engines
ValidEngine(e) == e \in valid_engines

InvalidEngineError(e) ==
    Raise("ValueError",
          "Summarizer configured incorrectly, invalid summarization engine set: "
          \o e \o ". Must be one of the following: {cecil, agnes, daphne, muriel}")

\* what kagi_client.summarize(...) may return
SummaryData == { [output |-> "summary text"], [tokens |-> "0"] }

SummaryResponses ==
    { [meta |-> "meta", data |-> d] : d \in SummaryData }
    \cup { [meta |-> "meta", data |-> d, error |-> e] :
              d \in SummaryData, e \in {"", "upstream error"} }
    \cup { [meta |-> "meta", error |-> e] : e \in {"", "upstream error"} }
    \cup { Meta }

\* summary = response["data"]["output"], then the check of the error
SummaryOf(response) ==
    IF "data" \notin DOMAIN response THEN Raise("KeyError", "data")
    ELSE IF "output" \notin DOMAIN response["data"] THEN Raise("KeyError", "output")
    ELSE IF Truthy(Get(response, "error", None))
    THEN Raise("ValueError", response["error"])
    ELSE Ok(response["data"]["output"])

InitSumm ==
    /\ pc = "call"
    /\ url \in {"", "https://example.com/doc"}
    /\ engine \in {None, "bogus"} \cup valid_engines
    /\ summary_type \in {"summary", "takeaway"}
    /\ target_language \in {None, "EN"}
    /\ requests = <<>>
    /\ queries = <<>> /\ results = <<>> /\ outcome = None
    /\ executor = "none" /\ fs = NoFuture /\ exc = None /\ now = 0

\* the host calls the tool: the checks of the url and of the engine, then
\* the request to the gateway
SummCall ==
    /\ pc = "call"
    /\ IF ~Truthy(url)
       THEN /\ outcome' = Raise("ValueError", "Summarizer called with no URL.")
            /\ pc' = "done"
            /\ UNCHANGED requests
       ELSE IF ~ValidEngine(EngineOf(engine))
       THEN /\ outcome' = InvalidEngineError(EngineOf(engine))
            /\ pc' = "done"
            /\ UNCHANGED requests
       ELSE /\ requests' = Append(requests,
                               [url |-> url, engine |-> EngineOf(engine),
                                summary_type |-> summary_type,
                                target_language |-> target_language])
            /\ pc' = "await"
            /\ UNCHANGED outcome
    /\ UNCHANGED <<queries, results, url, engine, summary_type, target_language>>
    /\ UNCHANGED searchVars

\* kagi_client.summarize returns a response
SummReturn ==
    /\ pc = "await"
    /\ \E response \in SummaryResponses :
          /\ results' = <<response>>
          /\ outcome' = SummaryOf(response)
    /\ pc' = "done"
    /\ UNCHANGED <<queries>>
    /\ UNCHANGED searchVars
    /\ UNCHANGED summVars

\* kagi_client.summarize raises: nothing catches it
SummRaise ==
    /\ pc = "await"
    /\ outcome' = Raise("TransportFault", "summarize")
    /\ pc' = "done"
    /\ UNCHANGED <<queries, results>>
    /\ UNCHANGED searchVars
    /\ UNCHANGED summVars

NextSumm == SummCall \/ SummReturn \/ SummRaise

SpecSumm == InitSumm /\ [][NextSumm]_vars

----------------------------------------------------------------------------
(* Properties of the formatter *)

\* the response carries an error message
CarriesError(response) ==
    "error" \in DOMAIN response /\ response["error"] \notin {None, ""}

\* a response of the data model: an error message, or a data list whose
\* items all have the discriminator t
WellFormed(response) ==
    \/ CarriesError(response)
    \/ /\ "data" \in DOMAIN response
       /\ \A j \in 1..Len(response["data"]) : "t" \in DOMAIN response["data"][j]

AllWellFormed == \A k \in 1..Len(results) : WellFormed(results[k])

\* the number of t = 0 items of a non-errored response, 0 for an errored one
OrganicCount(response) ==
    IF CarriesError(response) \/ "data" \notin DOMAIN response THEN 0
    ELSE Cardinality({ j \in 1..Len(response["data"]) :
                          Get(response["data"][j], "t", 1) = 0 })

RECURSIVE OrganicTotal(_, _)
OrganicTotal(responses, k) ==
    IF k = 0 THEN 0 ELSE OrganicTotal(responses, k - 1) + OrganicCount(responses[k])

\* the result numbers of a block, in the order rendered
BlockNumbers(block) ==
    LET body == block.formatted_search_results
        numbered == SelectSeq(body, LAMBDA e : "result_number" \in DOMAIN e)
    IN  [j \in 1..Len(numbered) |-> numbered[j].result_number]

RECURSIVE RenderedNumbers(_, _)
RenderedNumbers(blocks, k) ==
    IF k = 0 THEN <<>>
    ELSE RenderedNumbers(blocks, k - 1) \o BlockNumbers(blocks[k])

Formatted == pc = "done" /\ ~outcome.raised

\* C1: over well-formed responses the rendered results are numbered 1..N in
\* order across all blocks, N being the number of t = 0 items of the
\* responses that carry no error; the numbering continues across queries,
\* also across errored and empty ones.
C1_ContinuousNumbering ==
    (pc = "done" /\ AllWellFormed) =>
        /\ ~outcome.raised
        /\ LET numbers == RenderedNumbers(outcome.value, Len(outcome.value))
               N == OrganicTotal(results, Len(results))
           IN  numbers = [i \in 1..N |-> i]

\* three queries, the middle one errored or empty, the outer ones with
\* results: the third block starts where the first one stopped
C1_Witness ==
    /\ Formatted /\ AllWellFormed
    /\ Len(queries) = 3
    /\ OrganicCount(results[1]) = 2
    /\ OrganicCount(results[2]) = 0
    /\ OrganicCount(results[3]) = 2
    /\ BlockNumbers(outcome.value[3]) = <<3, 4>>

\* C5: a response with an error message gets the header of its query and
\* the single line ERROR: <message>, whether or not it has data; it adds
\* nothing to the running index, later queries are still formatted, and the
\* next non-errored query numbers on from the previous non-errored one.
C5_ErrorBlocks ==
    (pc = "done" /\ AllWellFormed) =>
        /\ ~outcome.raised
        /\ Len(outcome.value) = Len(queries)
        /\ \A k \in 1..Len(queries) :
              IF CarriesError(results[k])
              THEN outcome.value[k] =
                     [query |-> queries[k],
                      formatted_search_results |-> <<[ERROR |-> results[k]["error"]]>>]
              ELSE /\ outcome.value[k].query = queries[k]
                   /\ BlockNumbers(outcome.value[k]) =
                        [j \in 1..OrganicCount(results[k]) |->
                            OrganicTotal(results, k - 1) + j]

\* an errored response that also has data, between two queries with results
C5_Witness ==
    /\ Formatted
    /\ Len(queries) = 3
    /\ CarriesError(results[2]) /\ "data" \in DOMAIN results[2]
    /\ outcome.value[2].formatted_search_results = <<[ERROR |-> ErrorOf(queries[2])]>>
    /\ BlockNumbers(outcome.value[1]) = <<1>>
    /\ BlockNumbers(outcome.value[3]) = <<2>>

\* the rendering of item `item` as result number n, absent fields as the
\* sentinel
Rendering(n, item) ==
    [result_number |-> n,
     title |-> IF "title" \in DOMAIN item THEN item.title ELSE "Not Available",
     url |-> IF "url" \in DOMAIN item THEN item.url ELSE "Not Available",
     published |-> IF "published" \in DOMAIN item THEN item.published ELSE "Not Available",
     snippet |-> IF "snippet" \in DOMAIN item THEN item.snippet ELSE "Not Available"]

\* C8: format_search_results never raises, whatever the responses hold
\* (no error and no data, items without t, items without title, url,
\* published or snippet): it returns a text block per query, each absent
\* field rendered as "Not Available".
C8_NeverRaises ==
    pc = "done" =>
        /\ ~outcome.raised
        /\ Len(outcome.value) = Len(queries)
        /\ \A k \in 1..Len(queries) :
              \A e \in { outcome.value[k].formatted_search_results[j] :
                            j \in 1..Len(outcome.value[k].formatted_search_results) } :
                 "result_number" \in DOMAIN e =>
                    \E j \in 1..Len(results[k]["data"]) :
                       e = Rendering(e.result_number, results[k]["data"][j])

----------------------------------------------------------------------------
(* Properties of kagi_search_fetch *)

\* the entries of block `block` all come from response `response`
BlockComesFrom(block, response) ==
    \A j \in 1..Len(block.formatted_search_results) :
        LET e == block.formatted_search_results[j]
        IN  IF "ERROR" \in DOMAIN e
            THEN "error" \in DOMAIN response /\ e.ERROR = response["error"]
            ELSE /\ "data" \in DOMAIN response
                 /\ \E m \in 1..Len(response["data"]) :
                       e = Rendering(e.result_number, response["data"][m])

\* C2: whatever the order in which the requests complete, the response
\* collected at position i is the one the request for query i returned, and
\* a returned text has one block per query, in the order of the queries,
\* block i naming query i and holding only what was returned for query i.
C2_OrderPreserved ==
    /\ \A i \in 1..Len(results) :
          /\ fs[i].state = "FINISHED"
          /\ results[i] = fs[i].result
          /\ results[i] \in GatewaySearch(queries[i])
    /\ (pc = "done" /\ queries # <<>> /\ ~outcome.raised) =>
          /\ Len(results) = Len(queries)
          /\ Len(outcome.value) = Len(queries)
          /\ \A i \in 1..Len(queries) :
                /\ outcome.value[i].query = queries[i]
                /\ BlockComesFrom(outcome.value[i], fs[i].result)

\* the second request completed before the first one, and the text is in
\* the order of the queries
C2_Witness ==
    /\ pc = "done" /\ Len(queries) >= 2 /\ ~outcome.raised
    /\ fs[1].finished = "at" /\ fs[2].finished = "before"
    /\ outcome.value[1].query = "q1" /\ outcome.value[2].query = "q2"
    /\ BlockNumbers(outcome.value[2]) = <<2>>

\* C3: with no queries the call fails with the invalid-input error, no
\* executor is made and no request is issued.
C3_EmptyRejected ==
    queries = <<>> =>
        /\ executor = "none"
        /\ fs = <<>>
        /\ pc = "done" =>
              outcome = [raised |-> TRUE, type |-> "ValueError",
                         arg |-> "Search called with no queries."]

C3_Witness == queries = <<>> /\ pc = "done" /\ outcome.raised

\* C4: if a request raised, or ended after the timeout had passed, the
\* call fails with the one aggregate error and returns no text, also when
\* other requests succeeded; a text is returned only if every request
\* returned a response.
C4_FaultAbortsBatch ==
    (pc = "done" /\ queries # <<>>) =>
        /\ (\E i \in Futures : \/ fs[i].exception # None
                                \/ fs[i].finished = "after"
                                \/ fs[i].state = "CANCELLED") =>
              /\ outcome.raised
              /\ outcome.type = "ValueError"
              /\ outcome.arg \in
                    { "Error calling Kagi Search API (Currently in beta, make sure you have been granted access. Can be granted by emailing support@kagi.com): " \o e :
                        e \in {"TransportFault", "TimeoutError"} }
        /\ ~outcome.raised =>
              \A i \in Futures : /\ fs[i].state = "FINISHED"
                                  /\ fs[i].exception = None
                                  /\ fs[i].result \in GatewaySearch(queries[i])

\* one request returned a response, a later one raised
C4_Witness ==
    /\ pc = "done" /\ outcome.raised /\ exc = "TransportFault"
    /\ Len(results) >= 1
    /\ \E i \in Futures : fs[i].exception = "TransportFault"

TimedOut == exc = "TimeoutError"

\* C9 as claimed: the batch fails on timeout only if some request itself
\* ran for the timeout or longer, measured from its own start.
C9_PerRequestTimeout ==
    (pc = "done" /\ TimedOut) => \E i \in Futures : fs[i].long

\* C9 as amended: the timeout is one deadline for the whole batch, counted
\* from the map call: the batch fails on timeout only once that deadline
\* has come and some request had not completed before it (it ended at or
\* after the deadline, or never started).
C9_BatchDeadline ==
    TimedOut =>
        /\ now >= timeout
        /\ \E i \in Futures :
              \/ fs[i].state \in {"RUNNING", "CANCELLED"}
              \/ fs[i].state = "FINISHED" /\ fs[i].finished \in {"at", "after"}

\* a timeout although no request ran for the timeout itself: the one that
\* was late had waited for a free worker
C9_Witness ==
    /\ pc = "done" /\ TimedOut
    /\ \A i \in Futures : fs[i].state = "FINISHED" /\ ~fs[i].long
    /\ \E i \in Futures : fs[i].start > 0 /\ fs[i].finished = "after"

\* C10: when the call completes none of its requests is running or
\* queued; after a fault or timeout no request is left waiting to start,
\* only requests that never started are cancelled, and no query is
\* requested more than once.
C10_NoRequestOutlivesCall ==
    /\ pc = "done" =>
          \A i \in Futures : fs[i].state \in {"FINISHED", "CANCELLED"}
    /\ exc # None => \A i \in Futures : fs[i].state # "PENDING"
    /\ \A i \in Futures :
          /\ fs[i].calls <= 1
          /\ fs[i].state = "CANCELLED" => fs[i].calls = 0
          /\ fs[i].state \in {"RUNNING", "FINISHED"} => fs[i].calls = 1

\* a timeout with one request dropped and one that was running at the
\* timeout and ended before the call returned
C10_Witness ==
    /\ pc = "done" /\ TimedOut
    /\ \E i \in Futures : fs[i].state = "CANCELLED"
    /\ \E i \in Futures : fs[i].state = "FINISHED" /\ fs[i].finished = "after"

----------------------------------------------------------------------------
(* Properties of kagi_summarizer *)

\* C6: a response with an error message makes the call fail with that
\* message, whether or not it has output text; the output text is returned,
\* as it is, only for a response without error.
C6_ErrorTakesPrecedence ==
    (pc = "done" /\ results # <<>>) =>
        IF CarriesError(results[1])
        THEN outcome = [raised |-> TRUE, type |-> "ValueError",
                        arg |-> results[1]["error"]]
        ELSE ~outcome.raised => outcome.value = results[1]["data"]["output"]

\* C7: with an empty url, or an engine outside the four supported ones,
\* the call fails without any request to the gateway, the engine failure
\* naming the engine; otherwise exactly one request is issued, with the
\* url, engine, summary type and language of the call.
C7_FailFast ==
    LET e == IF engine = None THEN "cecil" ELSE engine
        rejected == url = "" \/ e \notin {"cecil", "agnes", "daphne", "muriel"}
    IN  /\ (pc # "call" /\ rejected) =>
              /\ pc = "done"
              /\ requests = <<>>
              /\ outcome.raised /\ outcome.type = "ValueError"
              /\ url # "" =>
                    outcome.arg =
                      "Summarizer configured incorrectly, invalid summarization engine set: "
                      \o e \o ". Must be one of the following: {cecil, agnes, daphne, muriel}"
        /\ (pc # "call" /\ ~rejected) =>
              requests = <<[url |-> url, engine |-> e,
                            summary_type |-> summary_type,
                            target_language |-> target_language]>>
        /\ pc = "call" => requests = <<>>

C7_Witness ==
    /\ pc = "done" /\ url # "" /\ engine = "bogus"
    /\ requests = <<>> /\ outcome.raised

====
